---------------------------- MODULE Spec2Model ----------------------------
(***************************************************************************)
(* Model of src/main.c: an audio recorder/player for the Raspberry Pi      *)
(* Pico.  Two execution contexts exist: the main loop (lines 115-154) and  *)
(* the GPIO interrupt handler tratador_interrupcao_botao (lines 303-318),  *)
(* which may run between any two statements of the main loop.  The DMA     *)
(* channel and the millisecond timer are hardware that runs on its own.    *)
(*                                                                         *)
(* uint32_t values whose wrap-around matters (the millisecond timestamps   *)
(* and the product freq_amostragem * duracao_seg) are pairs <<hi, lo>> of  *)
(* 16-bit limbs, so that arithmetic modulo 2^32 is computed exactly.       *)
(***************************************************************************)
EXTENDS Integers, Sequences, FiniteSets, TLC

VARIABLES
    pc,                             \* line of main() the main loop is at
    estado_do_sistema,              \* line 110
    total_amostras_capturadas,      \* line 111
    flag_botao_gravar_ativado,      \* line 67
    flag_botao_reproduzir_ativado,  \* line 68
    ultimo_acionamento_gravar,      \* line 71 (uint32, limbs)
    ultimo_acionamento_reproduzir,  \* line 72 (uint32, limbs)
    agora,                          \* the hardware millisecond timer (uint32, limbs)
    led,                            \* <<red, green, blue>> GPIO levels
    buffer_de_amostras,             \* line 63
    frame_buffer_display,           \* line 64
    tela,                           \* what the OLED shows (last render_on_display)
    nivel_pwm,                      \* PWM level of the two buzzer pins
    dma_ocupado,                    \* the DMA channel is transferring
    dma_contagem,                   \* transfer count the DMA channel was given
    adc_em_execucao,                \* adc_run(true/false)
    i_reproducao,                   \* loop index of processo_de_reproducao
    \* history variables (they record what happened, the program never reads them)
    gravacoes_iniciadas,            \* calls of processo_de_gravacao so far
    reproducoes_iniciadas,          \* calls of processo_de_reproducao so far
    bordas_aceitas,                 \* per button: edges accepted by the debounce
    fase_borda_gravar,              \* the last accepted record edge: the phase it came in,
                                    \* and the line that cleared its flag
    eventos,                        \* phases of the current cycle, in order
    ultima_borda,                   \* per button: the previous edge and the last accepted one
    \* harness of the specifications that check one function on its own
    chamada

vars == <<pc, estado_do_sistema, total_amostras_capturadas,
          flag_botao_gravar_ativado, flag_botao_reproduzir_ativado,
          ultimo_acionamento_gravar, ultimo_acionamento_reproduzir, agora,
          led, buffer_de_amostras, frame_buffer_display, tela, nivel_pwm,
          dma_ocupado, dma_contagem, adc_em_execucao, i_reproducao,
          gravacoes_iniciadas, reproducoes_iniciadas, bordas_aceitas,
          fase_borda_gravar, eventos, ultima_borda, chamada>>

\* the variables of the program and its hardware
varsPrograma == <<pc, estado_do_sistema, total_amostras_capturadas,
          flag_botao_gravar_ativado, flag_botao_reproduzir_ativado,
          ultimo_acionamento_gravar, ultimo_acionamento_reproduzir, agora,
          led, buffer_de_amostras, frame_buffer_display, tela, nivel_pwm,
          dma_ocupado, dma_contagem, adc_em_execucao, i_reproducao>>

\* the history variables
varsHistoria == <<gravacoes_iniciadas, reproducoes_iniciadas, bordas_aceitas,
          fase_borda_gravar, eventos, ultima_borda>>

-----------------------------------------------------------------------------
(* Program constants (lines 32-56).                                        *)

PINO_BOTAO_GRAVAR == 5
PINO_BOTAO_REPRODUZIR == 6
PINO_BUZZER_1 == 21
PINO_BUZZER_2 == 10
DISPLAY_WIDTH == 128
DISPLAY_HEIGHT == 64
TAXA_AMOSTRAGEM == 48000
DURACAO_GRAVACAO_S == 2
TAMANHO_BUFFER_AUDIO == TAXA_AMOSTRAGEM * DURACAO_GRAVACAO_S
TEMPO_DEBOUNCE_BOTAO_MS == 200
\* the 12-bit ceiling of line 277 and the divisor of line 280
FUNDO_ESCALA == 4095
\* inicializar_perifericos_basicos sleeps 2000 ms before it enables the interrupts
ESPERA_INICIAL_MS == 2000
\* clock_get_hz(clk_sys): the SDK's default system clock
ClkSysHz == 125 * 1000000

Botoes == {PINO_BOTAO_GRAVAR, PINO_BOTAO_REPRODUZIR}
Buzzers == {PINO_BUZZER_1, PINO_BUZZER_2}

-----------------------------------------------------------------------------
(* Bounds of the model.                                                    *)

\* capacity of buffer_de_amostras in the state-machine specifications
\* (TAMANHO_BUFFER_AUDIO samples in the program)
TamanhoBufferModelo == 2
\* the timer stops advancing this many ms after the interrupts are enabled
HorizonteMs == 250

\* longest block of samples the smoothing pass is checked on
MaxAmostrasFiltro == 4

\* the steps by which the millisecond timer is seen to advance
PassosDeTempo == {100, 101}
\* the converter's readings in the state-machine specifications
AmostrasADC == {0, 4095}

-----------------------------------------------------------------------------
(* uint32_t arithmetic on <<hi, lo>> limbs.                                *)

Base == 2^16

U32(n) == <<n \div Base, n % Base>>

ParaInt(a) == a[1] * Base + a[2]

Add32(a, b) ==
    LET lo == a[2] + b[2]
        hi == a[1] + b[1] + (lo \div Base)
    IN  <<hi % Base, lo % Base>>

Sub32(a, b) ==
    LET lo == a[2] - b[2]
        emprestimo == IF lo < 0 THEN 1 ELSE 0
        hi == a[1] - b[1] - emprestimo
    IN  <<(hi + Base) % Base, (lo + Base) % Base>>

\* the 32-bit product of two 16-bit numbers
Mul16(x, y) ==
    LET p0 == (x % 256) * y
        p1 == (x \div 256) * y
        t  == p0 + (p1 % 256) * 256
    IN  <<(t \div Base) + (p1 \div 256), t % Base>>

\* uint32_t * uint32_t: the low 32 bits of the product
Mul32(a, b) ==
    LET ll == Mul16(a[2], b[2])
        c1 == Mul16(a[1], b[2])[2]
        c2 == Mul16(a[2], b[1])[2]
    IN  <<(ll[1] + c1 + c2) % Base, ll[2]>>

Gt32(a, b) == a[1] > b[1] \/ (a[1] = b[1] /\ a[2] > b[2])


-----------------------------------------------------------------------------
(* The pure computations of the program.                                   *)

\* FATOR_SUAVIZACAO 0.2f (line 52) as the fraction FATOR_NUM / FATOR_DEN,
\* GANHO_SAIDA_AUDIO 1.7f (line 53) as GANHO_NUM / GANHO_DEN
FATOR_NUM == 1
FATOR_DEN == 5
GANHO_NUM == 17
GANHO_DEN == 10

\* a C conversion of a real number to an integer type: towards zero
Truncar(num, den) ==
    IF num >= 0 THEN num \div den ELSE -((-num) \div den)

\* mutant: the count is not clamped to the capacity
TotalDeAmostrasSemLimite(freq_amostragem, duracao_seg, capacidade) ==
    Mul32(freq_amostragem, duracao_seg)

\* lines 249-252: the sample count processo_de_gravacao captures and returns
\* (uint32_t product, then the clamp to the buffer's capacity)
TotalDeAmostras(freq_amostragem, duracao_seg, capacidade) ==
    LET total_de_amostras == Mul32(freq_amostragem, duracao_seg)
    IN  IF Gt32(total_de_amostras, capacidade)
        THEN capacidade
        ELSE total_de_amostras

\* mutant: the weights of the new sample and of the previous output swapped
suavizar_pesos_trocados(amostra_atual, amostra_anterior) ==
    Truncar((FATOR_DEN - FATOR_NUM) * amostra_atual + FATOR_NUM * amostra_anterior,
            FATOR_DEN)

\* mutant: the previous output weighted 1 + fator instead of 1 - fator
suavizar_peso_excessivo(amostra_atual, amostra_anterior) ==
    Truncar(FATOR_NUM * amostra_atual + (FATOR_DEN + FATOR_NUM) * amostra_anterior,
            FATOR_DEN) % Base

\* lines 331-334.  The float expression fator * atual + (1.0f - fator) * anterior
\* converted to uint16_t equals this integer quotient for every pair of
\* 16-bit operands (compared exhaustively with the compiled function).
suavizar_sinal_audio(amostra_atual, amostra_anterior) ==
    Truncar(FATOR_NUM * amostra_atual + (FATOR_DEN - FATOR_NUM) * amostra_anterior,
            FATOR_DEN)

\* lines 260-264: the in-place pass over buffer[0 .. n) (1-based here)
RECURSIVE FiltrarBuffer(_, _)
FiltrarBuffer(buffer, n) ==
    IF n <= 1
    THEN buffer
    ELSE LET anterior == FiltrarBuffer(buffer, n - 1)
         IN  [anterior EXCEPT ![n] = suavizar_sinal_audio(buffer[n], anterior[n - 1])]

\* lines 270-272, for clock >= freq_amostragem (the quotient does not wrap)
ValorMaxPwm(clock, freq_amostragem) ==
    LET valor == (clock \div freq_amostragem) - 1
    IN  IF valor = 0 THEN 1 ELSE valor

\* mutant: the amplified sample is not saturated
AmostraAmplificadaSemCorte(amostra) == Truncar(GANHO_NUM * amostra, GANHO_DEN)

\* lines 276-277: (uint32_t)(dados[i] * 1.7f), saturated at 4095
AmostraAmplificada(amostra) ==
    LET amplificada == Truncar(GANHO_NUM * amostra, GANHO_DEN)
    IN  IF amplificada > FUNDO_ESCALA THEN FUNDO_ESCALA ELSE amplificada

\* line 280
NivelPwm(amostra, valor_max_pwm) ==
    (AmostraAmplificada(amostra) * valor_max_pwm) \div FUNDO_ESCALA

\* lines 341-346
Y_OFFSET == 12
ADC_ZERO == 2048
GANHO_VISUAL == 4
AlturaDesenho == DISPLAY_HEIGHT - Y_OFFSET
YCentro == Y_OFFSET + (AlturaDesenho \div 2)

\* line 348
ColunasADesenhar(n_amostras) ==
    IF n_amostras < DISPLAY_WIDTH THEN n_amostras ELSE DISPLAY_WIDTH

\* mutant: the index rounded to the nearest sample instead of down
IndiceAmostraArredondado(x, n_amostras) ==
    IF n_amostras > DISPLAY_WIDTH
    THEN (x * n_amostras + (DISPLAY_WIDTH \div 2)) \div DISPLAY_WIDTH
    ELSE x

\* line 351 (x is 0-based, and so is the index)
IndiceAmostra(x, n_amostras) ==
    IF n_amostras > DISPLAY_WIDTH
    THEN (x * n_amostras) \div DISPLAY_WIDTH
    ELSE x

\* mutant: the row is not clipped to the drawable band
YFinalSemCorte(amostra) ==
    YCentro - Truncar((amostra - ADC_ZERO) * (AlturaDesenho \div 2) * GANHO_VISUAL,
                      ADC_ZERO)

\* lines 354-361: the row the column of a sample ends at
YFinal(amostra) ==
    LET amplitude == amostra - ADC_ZERO
        y == YCentro - Truncar(amplitude * (AlturaDesenho \div 2) * GANHO_VISUAL, ADC_ZERO)
    IN  IF y < Y_OFFSET THEN Y_OFFSET
        ELSE IF y >= DISPLAY_HEIGHT THEN DISPLAY_HEIGHT - 1
        ELSE y

\* lines 364-372: the rows set in the column of a sample
LinhasDaColuna(amostra) ==
    IF YFinal(amostra) > YCentro
    THEN YCentro .. YFinal(amostra)
    ELSE YFinal(amostra) .. YCentro

\* lines 337-373: the frame buffer mostrar_waveform_display draws
\* (dados_audio is 1-based here)
QuadroDaOnda(dados_audio, n_amostras) ==
    [titulo |-> TRUE,
     pixels |-> { <<x, y>> \in (0 .. (DISPLAY_WIDTH - 1)) \X (0 .. (DISPLAY_HEIGHT - 1)) :
                    /\ x < ColunasADesenhar(n_amostras)
                    /\ y \in LinhasDaColuna(dados_audio[IndiceAmostra(x, n_amostras) + 1]) }]

\* lines 385: the cleared frame buffer
QuadroVazio == [titulo |-> FALSE, pixels |-> {}]

-----------------------------------------------------------------------------
(* The initial state: main() after inicializar_perifericos_basicos.        *)

LedApagado == <<FALSE, FALSE, FALSE>>
LedVermelho == <<TRUE, FALSE, FALSE>>
LedVerde == <<FALSE, TRUE, FALSE>>

SemBorda == [ha |-> FALSE, t |-> U32(0), aceita |-> FALSE,
             ha_aceita |-> FALSE, t_aceita |-> U32(0)]

InitPrograma ==
    /\ pc = "switch"
    /\ estado_do_sistema = "MODO_ESPERA"
    /\ total_amostras_capturadas = 0
    /\ flag_botao_gravar_ativado = FALSE
    /\ flag_botao_reproduzir_ativado = FALSE
    /\ ultimo_acionamento_gravar = U32(0)
    /\ ultimo_acionamento_reproduzir = U32(0)
    /\ agora = U32(ESPERA_INICIAL_MS)
    /\ led = LedApagado
    /\ buffer_de_amostras = [i \in 1 .. TamanhoBufferModelo |-> 0]
    /\ frame_buffer_display = QuadroVazio
    /\ tela = QuadroVazio
    /\ nivel_pwm = [p \in Buzzers |-> 0]
    /\ dma_ocupado = FALSE
    /\ dma_contagem = 0
    /\ adc_em_execucao = FALSE
    /\ i_reproducao = 0

InitHistoria ==
    /\ gravacoes_iniciadas = 0
    /\ reproducoes_iniciadas = 0
    /\ bordas_aceitas = [b \in Botoes |-> 0]
    /\ fase_borda_gravar = [fase |-> "nenhuma", limpa_em |-> "nenhuma"]
    /\ eventos = <<>>
    /\ ultima_borda = [b \in Botoes |-> SemBorda]

Init ==
    /\ InitPrograma
    /\ InitHistoria
    /\ chamada = [fn |-> "main"]

-----------------------------------------------------------------------------
(* The main loop, one action per statement the interrupt handler can run   *)
(* between.  pc names the line the loop is about to execute.               *)

\* mutant: the flags are tested without the switch on the state
SwitchSemEstado ==
    /\ pc = "switch"
    /\ pc' = IF flag_botao_gravar_ativado THEN "L119"
             ELSE IF flag_botao_reproduzir_ativado THEN "L136"
             ELSE "L153"
    /\ UNCHANGED <<estado_do_sistema, total_amostras_capturadas,
                   flag_botao_gravar_ativado, flag_botao_reproduzir_ativado,
                   ultimo_acionamento_gravar, ultimo_acionamento_reproduzir, agora,
                   led, buffer_de_amostras, frame_buffer_display, tela, nivel_pwm,
                   dma_ocupado, dma_contagem, adc_em_execucao, i_reproducao>>

\* mutant: a pending record flag restarts the recording from either state
SwitchRegravaSempre ==
    /\ pc = "switch"
    /\ pc' = IF flag_botao_gravar_ativado
               THEN "L119"
             ELSE IF estado_do_sistema = "MODO_AGUARDANDO_PLAYBACK"
                     /\ flag_botao_reproduzir_ativado
               THEN "L136"
             ELSE "L153"
    /\ UNCHANGED <<estado_do_sistema, total_amostras_capturadas,
                   flag_botao_gravar_ativado, flag_botao_reproduzir_ativado,
                   ultimo_acionamento_gravar, ultimo_acionamento_reproduzir, agora,
                   led, buffer_de_amostras, frame_buffer_display, tela, nivel_pwm,
                   dma_ocupado, dma_contagem, adc_em_execucao, i_reproducao>>

\* lines 116-118 and 134-135: the switch and the test of the flag
Switch ==
    /\ pc = "switch"
    /\ pc' = IF estado_do_sistema = "MODO_ESPERA" /\ flag_botao_gravar_ativado
               THEN "L119"
             ELSE IF estado_do_sistema = "MODO_AGUARDANDO_PLAYBACK"
                     /\ flag_botao_reproduzir_ativado
               THEN "L136"
             ELSE "L153"
    /\ UNCHANGED <<estado_do_sistema, total_amostras_capturadas,
                   flag_botao_gravar_ativado, flag_botao_reproduzir_ativado,
                   ultimo_acionamento_gravar, ultimo_acionamento_reproduzir, agora,
                   led, buffer_de_amostras, frame_buffer_display, tela, nivel_pwm,
                   dma_ocupado, dma_contagem, adc_em_execucao, i_reproducao>>

\* line 119
LimparFlagGravar ==
    /\ pc = "L119"
    /\ flag_botao_gravar_ativado' = FALSE
    /\ pc' = "L121"
    /\ UNCHANGED <<estado_do_sistema, total_amostras_capturadas,
                   flag_botao_reproduzir_ativado,
                   ultimo_acionamento_gravar, ultimo_acionamento_reproduzir, agora,
                   led, buffer_de_amostras, frame_buffer_display, tela, nivel_pwm,
                   dma_ocupado, dma_contagem, adc_em_execucao, i_reproducao>>

\* lines 297-301, called with the colour of lines 121, 124, 138 and 141
definir_cor_led(em, cor, depois) ==
    /\ pc = em
    /\ led' = cor
    /\ pc' = depois
    /\ UNCHANGED <<estado_do_sistema, total_amostras_capturadas,
                   flag_botao_gravar_ativado, flag_botao_reproduzir_ativado,
                   ultimo_acionamento_gravar, ultimo_acionamento_reproduzir, agora,
                   buffer_de_amostras, frame_buffer_display, tela, nivel_pwm,
                   dma_ocupado, dma_contagem, adc_em_execucao, i_reproducao>>

\* line 121
LedGravando == definir_cor_led("L121", LedVermelho, "L123")

\* line 123 up to line 326: processo_de_gravacao computes the count and
\* capturar_amostras_via_dma starts the transfer
IniciarGravacao ==
    /\ pc = "L123"
    /\ dma_contagem' = ParaInt(TotalDeAmostras(U32(TAXA_AMOSTRAGEM),
                                               U32(DURACAO_GRAVACAO_S),
                                               U32(TamanhoBufferModelo)))
    /\ dma_ocupado' = TRUE
    /\ adc_em_execucao' = TRUE
    /\ pc' = "L327"
    /\ UNCHANGED <<estado_do_sistema, total_amostras_capturadas,
                   flag_botao_gravar_ativado, flag_botao_reproduzir_ativado,
                   ultimo_acionamento_gravar, ultimo_acionamento_reproduzir, agora,
                   led, buffer_de_amostras, frame_buffer_display, tela, nivel_pwm,
                   i_reproducao>>

\* mutant: the transfer is not waited for
DmaNaoEsperado == TRUE

\* the guard of dma_channel_wait_for_finish_blocking (line 327)
DmaTerminou == ~dma_ocupado

\* mutant: the wait gives up once the timer has moved past the record press
AguardarDmaComTimeout ==
    /\ pc = "L327"
    /\ DmaTerminou \/ Gt32(agora, ultimo_acionamento_gravar)
    /\ adc_em_execucao' = FALSE
    /\ pc' = "L260"
    /\ UNCHANGED <<estado_do_sistema, total_amostras_capturadas,
                   flag_botao_gravar_ativado, flag_botao_reproduzir_ativado,
                   ultimo_acionamento_gravar, ultimo_acionamento_reproduzir, agora,
                   led, buffer_de_amostras, frame_buffer_display, tela, nivel_pwm,
                   dma_ocupado, dma_contagem, i_reproducao>>

\* lines 327-328: the blocking wait returns, the converter is stopped
AguardarDma ==
    /\ pc = "L327"
    /\ DmaTerminou
    /\ adc_em_execucao' = FALSE
    /\ pc' = "L260"
    /\ UNCHANGED <<estado_do_sistema, total_amostras_capturadas,
                   flag_botao_gravar_ativado, flag_botao_reproduzir_ativado,
                   ultimo_acionamento_gravar, ultimo_acionamento_reproduzir, agora,
                   led, buffer_de_amostras, frame_buffer_display, tela, nivel_pwm,
                   dma_ocupado, dma_contagem, i_reproducao>>

\* lines 260-266 and the assignment of line 123
SuavizarERetornar ==
    /\ pc = "L260"
    /\ buffer_de_amostras' = FiltrarBuffer(buffer_de_amostras, dma_contagem)
    /\ total_amostras_capturadas' = dma_contagem
    /\ pc' = "L124"
    /\ UNCHANGED <<estado_do_sistema,
                   flag_botao_gravar_ativado, flag_botao_reproduzir_ativado,
                   ultimo_acionamento_gravar, ultimo_acionamento_reproduzir, agora,
                   led, frame_buffer_display, tela, nivel_pwm,
                   dma_ocupado, dma_contagem, adc_em_execucao, i_reproducao>>

\* mutant: the LED is left red when the recording returns
LedAposGravacaoVermelho == definir_cor_led("L124", LedVermelho, "L127")

\* line 124
LedAposGravacao == definir_cor_led("L124", LedApagado, "L127")

\* line 127, lines 337-373: the frame buffer is cleared and drawn
MostrarWaveform ==
    /\ pc = "L127"
    /\ frame_buffer_display' = QuadroDaOnda(buffer_de_amostras, total_amostras_capturadas)
    /\ pc' = "L381"
    /\ UNCHANGED <<estado_do_sistema, total_amostras_capturadas,
                   flag_botao_gravar_ativado, flag_botao_reproduzir_ativado,
                   ultimo_acionamento_gravar, ultimo_acionamento_reproduzir, agora,
                   led, buffer_de_amostras, tela, nivel_pwm,
                   dma_ocupado, dma_contagem, adc_em_execucao, i_reproducao>>

\* lines 376-381: render_on_display sends the frame buffer to the display
EnviarQuadro ==
    /\ pc = "L381"
    /\ tela' = frame_buffer_display
    /\ pc' = "L129"
    /\ UNCHANGED <<estado_do_sistema, total_amostras_capturadas,
                   flag_botao_gravar_ativado, flag_botao_reproduzir_ativado,
                   ultimo_acionamento_gravar, ultimo_acionamento_reproduzir, agora,
                   led, buffer_de_amostras, frame_buffer_display, nivel_pwm,
                   dma_ocupado, dma_contagem, adc_em_execucao, i_reproducao>>

\* mutant: a play flag that arrived early is discarded on entering the wait
ParaAguardandoPlaybackLimpaFlag ==
    /\ pc = "L129"
    /\ estado_do_sistema' = "MODO_AGUARDANDO_PLAYBACK"
    /\ flag_botao_reproduzir_ativado' = FALSE
    /\ pc' = "L153"
    /\ UNCHANGED <<total_amostras_capturadas, flag_botao_gravar_ativado,
                   ultimo_acionamento_gravar, ultimo_acionamento_reproduzir, agora,
                   led, buffer_de_amostras, frame_buffer_display, tela, nivel_pwm,
                   dma_ocupado, dma_contagem, adc_em_execucao, i_reproducao>>

\* line 129
ParaAguardandoPlayback ==
    /\ pc = "L129"
    /\ estado_do_sistema' = "MODO_AGUARDANDO_PLAYBACK"
    /\ pc' = "L153"
    /\ UNCHANGED <<total_amostras_capturadas,
                   flag_botao_gravar_ativado, flag_botao_reproduzir_ativado,
                   ultimo_acionamento_gravar, ultimo_acionamento_reproduzir, agora,
                   led, buffer_de_amostras, frame_buffer_display, tela, nivel_pwm,
                   dma_ocupado, dma_contagem, adc_em_execucao, i_reproducao>>

\* mutant: the play flag is not reset when it is consumed
LimparFlagReproduzirOmitido ==
    /\ pc = "L136"
    /\ pc' = "L138"
    /\ UNCHANGED <<estado_do_sistema, total_amostras_capturadas,
                   flag_botao_gravar_ativado, flag_botao_reproduzir_ativado,
                   ultimo_acionamento_gravar, ultimo_acionamento_reproduzir, agora,
                   led, buffer_de_amostras, frame_buffer_display, tela, nivel_pwm,
                   dma_ocupado, dma_contagem, adc_em_execucao, i_reproducao>>

\* line 136
LimparFlagReproduzir ==
    /\ pc = "L136"
    /\ flag_botao_reproduzir_ativado' = FALSE
    /\ pc' = "L138"
    /\ UNCHANGED <<estado_do_sistema, total_amostras_capturadas,
                   flag_botao_gravar_ativado,
                   ultimo_acionamento_gravar, ultimo_acionamento_reproduzir, agora,
                   led, buffer_de_amostras, frame_buffer_display, tela, nivel_pwm,
                   dma_ocupado, dma_contagem, adc_em_execucao, i_reproducao>>

\* line 138
LedReproduzindo == definir_cor_led("L138", LedVerde, "L140")

\* line 140, lines 270-274: processo_de_reproducao is entered
IniciarReproducao ==
    /\ pc = "L140"
    /\ i_reproducao' = 0
    /\ pc' = "L274"
    /\ UNCHANGED <<estado_do_sistema, total_amostras_capturadas,
                   flag_botao_gravar_ativado, flag_botao_reproduzir_ativado,
                   ultimo_acionamento_gravar, ultimo_acionamento_reproduzir, agora,
                   led, buffer_de_amostras, frame_buffer_display, tela, nivel_pwm,
                   dma_ocupado, dma_contagem, adc_em_execucao>>

\* mutant: the amplified sample is written back into the buffer
ReproduzirAmostraNoBuffer ==
    /\ pc = "L274"
    /\ i_reproducao < total_amostras_capturadas
    /\ nivel_pwm' = [p \in Buzzers |->
                        NivelPwm(buffer_de_amostras[i_reproducao + 1],
                                 ValorMaxPwm(ClkSysHz, TAXA_AMOSTRAGEM))]
    /\ buffer_de_amostras' =
          [buffer_de_amostras EXCEPT
              ![i_reproducao + 1] = AmostraAmplificada(buffer_de_amostras[i_reproducao + 1])]
    /\ i_reproducao' = i_reproducao + 1
    /\ UNCHANGED <<pc, estado_do_sistema, total_amostras_capturadas,
                   flag_botao_gravar_ativado, flag_botao_reproduzir_ativado,
                   ultimo_acionamento_gravar, ultimo_acionamento_reproduzir, agora,
                   led, frame_buffer_display, tela,
                   dma_ocupado, dma_contagem, adc_em_execucao>>

\* lines 274-287: one iteration of the playback loop
ReproduzirAmostra ==
    /\ pc = "L274"
    /\ i_reproducao < total_amostras_capturadas
    /\ nivel_pwm' = [p \in Buzzers |->
                        NivelPwm(buffer_de_amostras[i_reproducao + 1],
                                 ValorMaxPwm(ClkSysHz, TAXA_AMOSTRAGEM))]
    /\ i_reproducao' = i_reproducao + 1
    /\ UNCHANGED <<pc, estado_do_sistema, total_amostras_capturadas,
                   flag_botao_gravar_ativado, flag_botao_reproduzir_ativado,
                   ultimo_acionamento_gravar, ultimo_acionamento_reproduzir, agora,
                   led, buffer_de_amostras, frame_buffer_display, tela,
                   dma_ocupado, dma_contagem, adc_em_execucao>>

\* mutant: the buzzers keep the level of the last sample
SilenciarBuzzersOmitido ==
    /\ pc = "L274"
    /\ ~(i_reproducao < total_amostras_capturadas)
    /\ pc' = "L141"
    /\ UNCHANGED <<estado_do_sistema, total_amostras_capturadas,
                   flag_botao_gravar_ativado, flag_botao_reproduzir_ativado,
                   ultimo_acionamento_gravar, ultimo_acionamento_reproduzir, agora,
                   led, buffer_de_amostras, frame_buffer_display, tela, nivel_pwm,
                   dma_ocupado, dma_contagem, adc_em_execucao, i_reproducao>>

\* lines 274 (loop exit), 289-291
SilenciarBuzzers ==
    /\ pc = "L274"
    /\ ~(i_reproducao < total_amostras_capturadas)
    /\ nivel_pwm' = [p \in Buzzers |-> 0]
    /\ pc' = "L141"
    /\ UNCHANGED <<estado_do_sistema, total_amostras_capturadas,
                   flag_botao_gravar_ativado, flag_botao_reproduzir_ativado,
                   ultimo_acionamento_gravar, ultimo_acionamento_reproduzir, agora,
                   led, buffer_de_amostras, frame_buffer_display, tela,
                   dma_ocupado, dma_contagem, adc_em_execucao, i_reproducao>>

\* line 141
LedAposReproducao == definir_cor_led("L141", LedApagado, "L144")

\* line 144 (lines 384-392)
apagar_tela ==
    /\ pc = "L144"
    /\ frame_buffer_display' = QuadroVazio
    /\ tela' = frame_buffer_display'
    /\ pc' = "L147"
    /\ UNCHANGED <<estado_do_sistema, total_amostras_capturadas,
                   flag_botao_gravar_ativado, flag_botao_reproduzir_ativado,
                   ultimo_acionamento_gravar, ultimo_acionamento_reproduzir, agora,
                   led, buffer_de_amostras, nivel_pwm,
                   dma_ocupado, dma_contagem, adc_em_execucao, i_reproducao>>

\* mutant: the record flag is not cleared after playback
DescartarFlagGravarOmitido ==
    /\ pc = "L147"
    /\ pc' = "L149"
    /\ UNCHANGED <<estado_do_sistema, total_amostras_capturadas,
                   flag_botao_gravar_ativado, flag_botao_reproduzir_ativado,
                   ultimo_acionamento_gravar, ultimo_acionamento_reproduzir, agora,
                   led, buffer_de_amostras, frame_buffer_display, tela, nivel_pwm,
                   dma_ocupado, dma_contagem, adc_em_execucao, i_reproducao>>

\* line 147
DescartarFlagGravar ==
    /\ pc = "L147"
    /\ flag_botao_gravar_ativado' = FALSE
    /\ pc' = "L149"
    /\ UNCHANGED <<estado_do_sistema, total_amostras_capturadas,
                   flag_botao_reproduzir_ativado,
                   ultimo_acionamento_gravar, ultimo_acionamento_reproduzir, agora,
                   led, buffer_de_amostras, frame_buffer_display, tela, nivel_pwm,
                   dma_ocupado, dma_contagem, adc_em_execucao, i_reproducao>>

\* mutant: the state is not reset after playback
ParaEsperaSemTransicao ==
    /\ pc = "L149"
    /\ pc' = "L153"
    /\ UNCHANGED <<estado_do_sistema, total_amostras_capturadas,
                   flag_botao_gravar_ativado, flag_botao_reproduzir_ativado,
                   ultimo_acionamento_gravar, ultimo_acionamento_reproduzir, agora,
                   led, buffer_de_amostras, frame_buffer_display, tela, nivel_pwm,
                   dma_ocupado, dma_contagem, adc_em_execucao, i_reproducao>>

\* line 149
ParaEspera ==
    /\ pc = "L149"
    /\ estado_do_sistema' = "MODO_ESPERA"
    /\ pc' = "L153"
    /\ UNCHANGED <<total_amostras_capturadas,
                   flag_botao_gravar_ativado, flag_botao_reproduzir_ativado,
                   ultimo_acionamento_gravar, ultimo_acionamento_reproduzir, agora,
                   led, buffer_de_amostras, frame_buffer_display, tela, nivel_pwm,
                   dma_ocupado, dma_contagem, adc_em_execucao, i_reproducao>>

\* line 153: sleep_ms(10), then the next iteration
Dormir ==
    /\ pc = "L153"
    /\ pc' = "switch"
    /\ UNCHANGED <<estado_do_sistema, total_amostras_capturadas,
                   flag_botao_gravar_ativado, flag_botao_reproduzir_ativado,
                   ultimo_acionamento_gravar, ultimo_acionamento_reproduzir, agora,
                   led, buffer_de_amostras, frame_buffer_display, tela, nivel_pwm,
                   dma_ocupado, dma_contagem, adc_em_execucao, i_reproducao>>

-----------------------------------------------------------------------------
(* The interrupt handler and the hardware.                                 *)

\* mutant: the comparison written >= instead of >
DebounceVencidoOuIgual(instante, ultimo_acionamento) ==
    ~Gt32(U32(TEMPO_DEBOUNCE_BOTAO_MS), Sub32(instante, ultimo_acionamento))

\* mutant: a timestamp below the last accepted one is never accepted
DebounceVencidoSemVolta(instante, ultimo_acionamento) ==
    /\ Gt32(instante, ultimo_acionamento)
    /\ Gt32(Sub32(instante, ultimo_acionamento), U32(TEMPO_DEBOUNCE_BOTAO_MS))

\* the comparisons of lines 307 and 313 (unsigned 32-bit subtraction)
DebounceVencido(instante, ultimo_acionamento) ==
    Gt32(Sub32(instante, ultimo_acionamento), U32(TEMPO_DEBOUNCE_BOTAO_MS))

\* mutant: a rejected edge restarts the debounce window
tratador_estende_janela(pino) ==
    /\ flag_botao_gravar_ativado' =
          (flag_botao_gravar_ativado
             \/ (pino = PINO_BOTAO_GRAVAR
                   /\ DebounceVencido(agora, ultimo_acionamento_gravar)))
    /\ ultimo_acionamento_gravar' =
          IF pino = PINO_BOTAO_GRAVAR THEN agora ELSE ultimo_acionamento_gravar
    /\ flag_botao_reproduzir_ativado' =
          (flag_botao_reproduzir_ativado
             \/ (pino = PINO_BOTAO_REPRODUZIR
                   /\ DebounceVencido(agora, ultimo_acionamento_reproduzir)))
    /\ ultimo_acionamento_reproduzir' =
          IF pino = PINO_BOTAO_REPRODUZIR THEN agora ELSE ultimo_acionamento_reproduzir
    /\ UNCHANGED <<pc, estado_do_sistema, total_amostras_capturadas, agora,
                   led, buffer_de_amostras, frame_buffer_display, tela, nivel_pwm,
                   dma_ocupado, dma_contagem, adc_em_execucao, i_reproducao>>

\* lines 303-318, called by the GPIO interrupt of a falling edge on pino
tratador_interrupcao_botao(pino) ==
    /\ IF pino = PINO_BOTAO_GRAVAR
          /\ DebounceVencido(agora, ultimo_acionamento_gravar)
       THEN /\ flag_botao_gravar_ativado' = TRUE
            /\ ultimo_acionamento_gravar' = agora
       ELSE UNCHANGED <<flag_botao_gravar_ativado, ultimo_acionamento_gravar>>
    /\ IF pino = PINO_BOTAO_REPRODUZIR
          /\ DebounceVencido(agora, ultimo_acionamento_reproduzir)
       THEN /\ flag_botao_reproduzir_ativado' = TRUE
            /\ ultimo_acionamento_reproduzir' = agora
       ELSE UNCHANGED <<flag_botao_reproduzir_ativado, ultimo_acionamento_reproduzir>>
    /\ UNCHANGED <<pc, estado_do_sistema, total_amostras_capturadas, agora,
                   led, buffer_de_amostras, frame_buffer_display, tela, nivel_pwm,
                   dma_ocupado, dma_contagem, adc_em_execucao, i_reproducao>>

\* the DMA channel started at line 324 moves dma_contagem readings of the
\* converter into the buffer and goes idle (no action of the program)
DmaConcluiTransferencia ==
    /\ dma_ocupado
    /\ adc_em_execucao
    /\ \E dados \in [1 .. dma_contagem -> AmostrasADC] :
          buffer_de_amostras' =
              [i \in 1 .. Len(buffer_de_amostras) |->
                  IF i <= dma_contagem THEN dados[i] ELSE buffer_de_amostras[i]]
    /\ dma_ocupado' = FALSE
    /\ UNCHANGED <<pc, estado_do_sistema, total_amostras_capturadas,
                   flag_botao_gravar_ativado, flag_botao_reproduzir_ativado,
                   ultimo_acionamento_gravar, ultimo_acionamento_reproduzir, agora,
                   led, frame_buffer_display, tela, nivel_pwm,
                   dma_contagem, adc_em_execucao, i_reproducao>>

\* the millisecond timer read at line 304 advances
PassarTempo ==
    /\ Gt32(U32(HorizonteMs), Sub32(agora, U32(ESPERA_INICIAL_MS)))
    /\ \E d \in PassosDeTempo : agora' = Add32(agora, U32(d))
    /\ UNCHANGED <<pc, estado_do_sistema, total_amostras_capturadas,
                   flag_botao_gravar_ativado, flag_botao_reproduzir_ativado,
                   ultimo_acionamento_gravar, ultimo_acionamento_reproduzir,
                   led, buffer_de_amostras, frame_buffer_display, tela, nivel_pwm,
                   dma_ocupado, dma_contagem, adc_em_execucao, i_reproducao>>

\* one step of the main loop
LacoPrincipal ==
    \/ Switch
    \/ LimparFlagGravar
    \/ LedGravando
    \/ IniciarGravacao
    \/ AguardarDma
    \/ SuavizarERetornar
    \/ LedAposGravacao
    \/ MostrarWaveform
    \/ EnviarQuadro
    \/ ParaAguardandoPlayback
    \/ LimparFlagReproduzir
    \/ LedReproduzindo
    \/ IniciarReproducao
    \/ ReproduzirAmostra
    \/ SilenciarBuzzers
    \/ LedAposReproducao
    \/ apagar_tela
    \/ DescartarFlagGravar
    \/ ParaEspera
    \/ Dormir

-----------------------------------------------------------------------------
(* The history variables.                                                  *)

\* where the main loop is, as a phase of the record/play cycle
FaseDoLaco ==
    CASE pc \in {"switch", "L153"} ->
            IF estado_do_sistema = "MODO_ESPERA" THEN "espera" ELSE "aguardando"
      [] pc \in {"L119", "L121", "L123"} -> "inicio_gravacao"
      [] pc \in {"L327", "L260"} -> "gravacao"
      [] pc \in {"L124", "L127"} -> "fim_gravacao"
      [] pc = "L381" -> "render"
      [] pc = "L129" -> "fim_render"
      [] pc \in {"L136", "L138", "L140"} -> "inicio_reproducao"
      [] pc = "L274" -> "reproducao"
      [] OTHER -> "fim_reproducao"

\* what a step of the main loop adds to the history
HistoriaDoLaco ==
    /\ gravacoes_iniciadas' = gravacoes_iniciadas + (IF pc = "L123" THEN 1 ELSE 0)
    /\ reproducoes_iniciadas' = reproducoes_iniciadas + (IF pc = "L140" THEN 1 ELSE 0)
    /\ eventos' = CASE pc = "L327" -> Append(eventos, "captura")
                    [] pc = "L260" -> Append(eventos, "suavizacao")
                    [] pc = "L381" -> Append(eventos, "render")
                    [] pc = "L129" -> Append(eventos, "aguardando")
                    [] pc = "L274" /\ pc' = "L141" -> Append(eventos, "reproducao")
                    [] pc = "L144" -> Append(eventos, "apaga_tela")
                    [] pc = "L149" -> <<>>
                    [] OTHER -> eventos
    /\ fase_borda_gravar' = IF flag_botao_gravar_ativado /\ ~flag_botao_gravar_ativado'
                            THEN [fase_borda_gravar EXCEPT !.limpa_em = pc]
                            ELSE fase_borda_gravar
    /\ UNCHANGED <<bordas_aceitas, ultima_borda>>

\* the timestamp the handler compares with, for a button
UltimoAcionamento(pino) ==
    IF pino = PINO_BOTAO_GRAVAR
    THEN ultimo_acionamento_gravar
    ELSE ultimo_acionamento_reproduzir

\* what an edge on pino adds to the history
HistoriaDaBorda(pino) ==
    LET aceita == DebounceVencido(agora, UltimoAcionamento(pino))
    IN  /\ bordas_aceitas' = [bordas_aceitas EXCEPT
                                 ![pino] = @ + (IF aceita THEN 1 ELSE 0)]
        /\ fase_borda_gravar' = IF pino = PINO_BOTAO_GRAVAR /\ aceita
                                THEN [fase |-> FaseDoLaco, limpa_em |-> "nenhuma"]
                                ELSE fase_borda_gravar
        /\ ultima_borda' = [ultima_borda EXCEPT
                               ![pino] = [ha |-> TRUE, t |-> agora, aceita |-> aceita,
                                          ha_aceita |-> aceita \/ @.ha_aceita,
                                          t_aceita |-> IF aceita THEN agora ELSE @.t_aceita]]
        /\ UNCHANGED <<gravacoes_iniciadas, reproducoes_iniciadas, eventos>>

-----------------------------------------------------------------------------
(* The program: the main loop, interrupted at any point by a falling edge  *)
(* on either button, beside the DMA channel and the timer.                 *)

Principal == LacoPrincipal /\ HistoriaDoLaco /\ UNCHANGED chamada

Interrupcao ==
    \E pino \in Botoes :
        tratador_interrupcao_botao(pino) /\ HistoriaDaBorda(pino) /\ UNCHANGED chamada

Dma == DmaConcluiTransferencia /\ UNCHANGED varsHistoria /\ UNCHANGED chamada

Relogio == PassarTempo /\ UNCHANGED varsHistoria /\ UNCHANGED chamada

Next == Principal \/ Interrupcao \/ Dma \/ Relogio

Spec == Init /\ [][Next]_vars

-----------------------------------------------------------------------------
(* The scenario of one record press and one play press: the debounce       *)
(* accepts a single edge on the record button, and a single edge on the    *)
(* play button once recording and rendering are over; every other edge is  *)
(* a bounce the debounce rejects.  The main loop keeps running and a       *)
(* started DMA transfer completes.                                         *)

CenarioPermite(pino) ==
    DebounceVencido(agora, UltimoAcionamento(pino)) =>
        IF pino = PINO_BOTAO_GRAVAR
        THEN bordas_aceitas[PINO_BOTAO_GRAVAR] = 0
        ELSE /\ bordas_aceitas[PINO_BOTAO_REPRODUZIR] = 0
             /\ estado_do_sistema = "MODO_AGUARDANDO_PLAYBACK"
             /\ pc \in {"switch", "L153"}

InterrupcaoDoCenario ==
    \E pino \in Botoes :
        /\ CenarioPermite(pino)
        /\ tratador_interrupcao_botao(pino)
        /\ HistoriaDaBorda(pino)
        /\ UNCHANGED chamada

NextCiclo == Principal \/ InterrupcaoDoCenario \/ Dma \/ Relogio

SpecCiclo ==
    /\ Init
    /\ [][NextCiclo]_vars
    /\ WF_vars(Principal)
    /\ WF_vars(Dma)

-----------------------------------------------------------------------------
(* Specifications that run one function of the program on inputs drawn     *)
(* from bounded sets.  chamada holds the call: its arguments, how far it   *)
(* got and what it produced.                                               *)

\* arguments of processo_de_gravacao: products below, at and above the
\* capacity, and products that do not fit in 32 bits
EntradasU32 ==
    {U32(0), U32(1), U32(2), U32(3), U32(47999), U32(48000), U32(48001),
     U32(TAMANHO_BUFFER_AUDIO), U32(TAMANHO_BUFFER_AUDIO + 1),
     <<0, Base - 1>>, <<1, 0>>, <<1, 1>>, <<Base \div 2, 0>>,
     <<Base - 1, Base - 1>>}

InitGravacao ==
    /\ InitPrograma
    /\ InitHistoria
    /\ chamada \in [fn : {"processo_de_gravacao"}, fase : {"L249"},
                    freq_amostragem : EntradasU32, duracao_seg : EntradasU32,
                    contagem_dma : {U32(0)}, retorno : {U32(0)}]

\* lines 249-257 and 324: the count is computed and given to the DMA channel
GravacaoProgramaDma ==
    /\ chamada.fn = "processo_de_gravacao"
    /\ chamada.fase = "L249"
    /\ chamada' = [chamada EXCEPT
                      !.fase = "L327",
                      !.contagem_dma = TotalDeAmostras(chamada.freq_amostragem,
                                                       chamada.duracao_seg,
                                                       U32(TAMANHO_BUFFER_AUDIO))]
    /\ UNCHANGED <<varsPrograma, varsHistoria>>

\* line 266: the count the DMA channel was given is returned
GravacaoRetorna ==
    /\ chamada.fn = "processo_de_gravacao"
    /\ chamada.fase = "L327"
    /\ chamada' = [chamada EXCEPT !.fase = "retornou",
                                  !.retorno = chamada.contagem_dma]
    /\ UNCHANGED <<varsPrograma, varsHistoria>>

NextGravacao == GravacaoProgramaDma \/ GravacaoRetorna

SpecGravacao == InitGravacao /\ [][NextGravacao]_vars

\* raw blocks the smoothing pass is run on
AmostrasDoFiltro == {0, 1, 3, 2048, 4094, 4095, 65535}

BlocosDoFiltro ==
    UNION { [1 .. n -> AmostrasDoFiltro] : n \in 1 .. MaxAmostrasFiltro }

InitSuavizacao ==
    /\ InitPrograma
    /\ InitHistoria
    /\ chamada \in [fn : {"suavizacao"}, fase : {"L260"},
                    entrada : BlocosDoFiltro, saida : {<<>>}]

\* lines 260-264 on a block of raw samples
SuavizacaoExecuta ==
    /\ chamada.fn = "suavizacao"
    /\ chamada.fase = "L260"
    /\ chamada' = [chamada EXCEPT
                      !.fase = "L266",
                      !.saida = FiltrarBuffer(chamada.entrada, Len(chamada.entrada))]
    /\ UNCHANGED <<varsPrograma, varsHistoria>>

NextSuavizacao == SuavizacaoExecuta

SpecSuavizacao == InitSuavizacao /\ [][NextSuavizacao]_vars

\* every value of a uint16_t sample
Amostras16 == 0 .. (2^16 - 1)

\* values of clock_get_hz(clk_sys): the SDK's default and its maximum
RelogiosDoSistema == {ClkSysHz, 133 * 1000000}

InitReproducao ==
    /\ InitPrograma
    /\ InitHistoria
    /\ chamada \in [fn : {"processo_de_reproducao"}, fase : {"L274"},
                    amostra : Amostras16, clock : RelogiosDoSistema]

\* lines 270-283 for one sample: both buzzers get its level
ReproducaoTocaAmostra ==
    /\ chamada.fn = "processo_de_reproducao"
    /\ chamada.fase = "L274"
    /\ nivel_pwm' = [p \in Buzzers |->
                        NivelPwm(chamada.amostra,
                                 ValorMaxPwm(chamada.clock, TAXA_AMOSTRAGEM))]
    /\ chamada' = [chamada EXCEPT !.fase = "L286"]
    /\ UNCHANGED <<pc, estado_do_sistema, total_amostras_capturadas,
                   flag_botao_gravar_ativado, flag_botao_reproduzir_ativado,
                   ultimo_acionamento_gravar, ultimo_acionamento_reproduzir, agora,
                   led, buffer_de_amostras, frame_buffer_display, tela,
                   dma_ocupado, dma_contagem, adc_em_execucao, i_reproducao>>
    /\ UNCHANGED varsHistoria

NextReproducao == ReproducaoTocaAmostra

SpecReproducao == InitReproducao /\ [][NextReproducao]_vars

\* sample counts given to mostrar_waveform_display, up to the capacity
ContagensDeAmostras ==
    {0, 1, 2, 127, DISPLAY_WIDTH, 129, 255, 256, 257, 1000,
     TAXA_AMOSTRAGEM, TAMANHO_BUFFER_AUDIO}

\* the sample found at the index a column reads
AmostrasDaColuna == {0, 2047, ADC_ZERO, 2049, 4095, 65535}

InitWaveform ==
    /\ InitPrograma
    /\ InitHistoria
    /\ chamada \in [fn : {"mostrar_waveform_display"}, fase : {"L349"},
                    n_amostras : ContagensDeAmostras,
                    x : 0 .. (DISPLAY_WIDTH - 1),
                    amostra : AmostrasDaColuna,
                    desenhada : {FALSE}, indice_amostra : {0}, linhas : {{}}]

\* lines 348-372 for column x: whether the loop reaches it, the index it
\* reads and the rows it sets
WaveformDesenhaColuna ==
    /\ chamada.fn = "mostrar_waveform_display"
    /\ chamada.fase = "L349"
    /\ chamada' =
          IF chamada.x < ColunasADesenhar(chamada.n_amostras)
          THEN [chamada EXCEPT
                   !.fase = "L373",
                   !.desenhada = TRUE,
                   !.indice_amostra = IndiceAmostra(chamada.x, chamada.n_amostras),
                   !.linhas = LinhasDaColuna(chamada.amostra)]
          ELSE [chamada EXCEPT !.fase = "L373"]
    /\ UNCHANGED <<varsPrograma, varsHistoria>>

NextWaveform == WaveformDesenhaColuna

SpecWaveform == InitWaveform /\ [][NextWaveform]_vars

\* one column of mostrar_waveform_display for every value of its sample,
\* in the first and the last column of a full-width waveform
InitColuna ==
    /\ InitPrograma
    /\ InitHistoria
    /\ chamada \in [fn : {"mostrar_waveform_display"}, fase : {"L349"},
                    n_amostras : {DISPLAY_WIDTH},
                    x : {0, DISPLAY_WIDTH - 1},
                    amostra : Amostras16,
                    desenhada : {FALSE}, indice_amostra : {0}, linhas : {{}}]

SpecColuna == InitColuna /\ [][NextWaveform]_vars

\* the handler run once for an edge on chamada.pino that comes
\* chamada.decorrido ms (less than 2^32) after the last accepted edge at
\* chamada.ultimo: the timer reads their sum modulo 2^32
UltimosAceitos ==
    {U32(0), U32(1), U32(ESPERA_INICIAL_MS), <<0, Base - 1>>, <<1, 0>>,
     <<Base \div 2, 0>>, <<Base - 1, Base - 202>>, <<Base - 1, Base - 201>>,
     <<Base - 1, Base - 200>>, <<Base - 1, Base - 100>>, <<Base - 1, Base - 1>>}

TemposDecorridos ==
    {U32(0), U32(1), U32(100), U32(199), U32(200), U32(201), U32(202),
     <<0, Base - 1>>, <<1, 0>>, <<1, 200>>, <<1, 201>>, <<Base \div 2, 0>>,
     <<Base - 1, Base - 201>>, <<Base - 1, Base - 200>>, <<Base - 1, Base - 1>>}

InitDebounce ==
    /\ chamada \in [fn : {"tratador_interrupcao_botao"}, fase : {"L303"},
                    pino : Botoes, ultimo : UltimosAceitos,
                    decorrido : TemposDecorridos, flag_antes : BOOLEAN]
    /\ pc = "switch"
    /\ estado_do_sistema = "MODO_ESPERA"
    /\ total_amostras_capturadas = 0
    /\ flag_botao_gravar_ativado =
          (chamada.pino = PINO_BOTAO_GRAVAR /\ chamada.flag_antes)
    /\ flag_botao_reproduzir_ativado =
          (chamada.pino = PINO_BOTAO_REPRODUZIR /\ chamada.flag_antes)
    /\ ultimo_acionamento_gravar =
          IF chamada.pino = PINO_BOTAO_GRAVAR THEN chamada.ultimo ELSE U32(0)
    /\ ultimo_acionamento_reproduzir =
          IF chamada.pino = PINO_BOTAO_REPRODUZIR THEN chamada.ultimo ELSE U32(0)
    /\ agora = Add32(chamada.ultimo, chamada.decorrido)
    /\ led = LedApagado
    /\ buffer_de_amostras = [i \in 1 .. TamanhoBufferModelo |-> 0]
    /\ frame_buffer_display = QuadroVazio
    /\ tela = QuadroVazio
    /\ nivel_pwm = [p \in Buzzers |-> 0]
    /\ dma_ocupado = FALSE
    /\ dma_contagem = 0
    /\ adc_em_execucao = FALSE
    /\ i_reproducao = 0
    /\ InitHistoria

\* lines 303-318 run for the edge of the call
DebounceTrataBorda ==
    /\ chamada.fn = "tratador_interrupcao_botao"
    /\ chamada.fase = "L303"
    /\ tratador_interrupcao_botao(chamada.pino)
    /\ HistoriaDaBorda(chamada.pino)
    /\ chamada' = [chamada EXCEPT !.fase = "L318"]

NextDebounce == DebounceTrataBorda

SpecDebounce == InitDebounce /\ [][NextDebounce]_vars

\* The program entered at the call of processo_de_reproducao of line 140
\* with an empty recording (n_amostras = 0), beside the program from boot.
InitReproducaoVazia ==
    /\ pc = "L140"
    /\ estado_do_sistema = "MODO_AGUARDANDO_PLAYBACK"
    /\ total_amostras_capturadas = 0
    /\ flag_botao_gravar_ativado = FALSE
    /\ flag_botao_reproduzir_ativado = FALSE
    /\ ultimo_acionamento_gravar = U32(0)
    /\ ultimo_acionamento_reproduzir = U32(0)
    \* the timer at the end of the modelled window
    /\ agora = Add32(U32(ESPERA_INICIAL_MS), U32(HorizonteMs))
    /\ led = LedVerde
    /\ buffer_de_amostras = [i \in 1 .. TamanhoBufferModelo |-> 0]
    /\ frame_buffer_display = QuadroDaOnda(buffer_de_amostras, 0)
    /\ tela = frame_buffer_display
    /\ nivel_pwm = [p \in Buzzers |-> 0]
    /\ dma_ocupado = FALSE
    /\ dma_contagem = 0
    /\ adc_em_execucao = FALSE
    /\ i_reproducao = 0
    /\ InitHistoria
    /\ chamada = [fn |-> "processo_de_reproducao", n_amostras |-> 0]

InitPwm == Init \/ InitReproducaoVazia

SpecPwm == InitPwm /\ [][Next]_vars

-----------------------------------------------------------------------------
(* Properties.                                                             *)

FlagDoBotao(pino) ==
    IF pino = PINO_BOTAO_GRAVAR
    THEN flag_botao_gravar_ativado
    ELSE flag_botao_reproduzir_ativado

\* a step in which the handler runs for a falling edge on pino
BordaEm(pino) == tratador_interrupcao_botao(pino) /\ HistoriaDaBorda(pino)

\* the time from an earlier instant to now is at most the debounce window
DentroDaJanela(anterior) ==
    ~Gt32(Sub32(agora, anterior), U32(TEMPO_DEBOUNCE_BOTAO_MS))

\* C1 as stated: of two edges on the same button at most 200 ms apart the
\* second never sets the flag, and an edge more than 200 ms after the last
\* accepted edge always sets it.
C1_Original ==
    [][\A pino \in Botoes :
          BordaEm(pino) =>
              /\ (ultima_borda[pino].ha /\ DentroDaJanela(ultima_borda[pino].t))
                     => ~ultima_borda'[pino].aceita
              /\ (ultima_borda[pino].ha_aceita
                  /\ ~DentroDaJanela(ultima_borda[pino].t_aceita))
                     => FlagDoBotao(pino)']_vars

\* C1, amended: an edge at most 200 ms after the last ACCEPTED edge on the
\* same button leaves the button's flag as it is (also when the main loop
\* has cleared it in between), and an edge more than 200 ms after the last
\* accepted edge always sets the flag, whatever the flag, the other button
\* and the system state are.
C1_Debounce ==
    [][\A pino \in Botoes :
          (BordaEm(pino) /\ ultima_borda[pino].ha_aceita) =>
              IF DentroDaJanela(ultima_borda[pino].t_aceita)
              THEN /\ FlagDoBotao(pino)' = FlagDoBotao(pino)
                   /\ ~ultima_borda'[pino].aceita
              ELSE /\ FlagDoBotao(pino)'
                   /\ ultima_borda'[pino].aceita]_vars

\* C1 witness: the record button had two accepted edges, then an edge inside
\* the window was ignored after the main loop had cleared the flag.
C1_Witness ==
    /\ bordas_aceitas[PINO_BOTAO_GRAVAR] >= 2
    /\ ultima_borda[PINO_BOTAO_GRAVAR].ha
    /\ ~ultima_borda[PINO_BOTAO_GRAVAR].aceita
    /\ ~flag_botao_gravar_ativado

CicloCompleto == <<"captura", "suavizacao", "render", "aguardando",
                   "reproducao", "apaga_tela">>

\* C2: in the scenario of one accepted record press followed, once the
\* system waits for playback, by one accepted play press, the system
\* returns to Idle having run capture, smoothing, render, the wait,
\* playback and the display clear in that order, with exactly one call of
\* processo_de_gravacao and one of processo_de_reproducao.
C2_UmCiclo ==
    /\ [](pc = "L149" => eventos = CicloCompleto)
    /\ [](gravacoes_iniciadas <= 1 /\ reproducoes_iniciadas <= 1)
    /\ (bordas_aceitas[PINO_BOTAO_GRAVAR] = 1 /\ bordas_aceitas[PINO_BOTAO_REPRODUZIR] = 1)
          ~> [](/\ estado_do_sistema = "MODO_ESPERA"
                /\ pc \in {"switch", "L153"}
                /\ gravacoes_iniciadas = 1
                /\ reproducoes_iniciadas = 1)

\* C2 witness: both presses were accepted and the cycle is over.
C2_Witness ==
    /\ bordas_aceitas[PINO_BOTAO_GRAVAR] = 1
    /\ bordas_aceitas[PINO_BOTAO_REPRODUZIR] = 1
    /\ estado_do_sistema = "MODO_ESPERA"
    /\ pc = "switch"
    /\ gravacoes_iniciadas = 1
    /\ reproducoes_iniciadas = 1
    /\ eventos = <<>>

\* C3: a record flag whose edge was accepted while processo_de_reproducao
\* was running is pending only until line 147 clears it: it is false when
\* the loop leaves the playback branch, so no poll in Idle ever sees it.
C3_FlagDescartada ==
    (flag_botao_gravar_ativado /\ fase_borda_gravar.fase = "reproducao")
        => pc \in {"L274", "L141", "L144", "L147"}

\* C3 witness: the loop polls in Idle after line 147 cleared a flag that was
\* set during playback.
C3_Witness ==
    /\ pc = "switch"
    /\ estado_do_sistema = "MODO_ESPERA"
    /\ ~flag_botao_gravar_ativado
    /\ fase_borda_gravar = [fase |-> "reproducao", limpa_em |-> "L147"]

\* C4: a poll in Idle with only the play flag set, or in AwaitingPlayback
\* with only the record flag set, goes straight to the sleep of line 153
\* with the LED off and changes neither the state, the LED, the sample
\* buffer, the sample count, the PWM outputs nor the display.
C4_PollSemEfeito ==
    [][(/\ Switch
        /\ \/ /\ estado_do_sistema = "MODO_ESPERA"
              /\ ~flag_botao_gravar_ativado
              /\ flag_botao_reproduzir_ativado
           \/ /\ estado_do_sistema = "MODO_AGUARDANDO_PLAYBACK"
              /\ flag_botao_gravar_ativado
              /\ ~flag_botao_reproduzir_ativado)
       => /\ pc' = "L153"
          /\ led = LedApagado
          /\ UNCHANGED <<estado_do_sistema, led, buffer_de_amostras,
                         total_amostras_capturadas, nivel_pwm,
                         frame_buffer_display, tela>>]_vars

\* C4 witness: before any recording, a poll in Idle found only the play flag
\* set and the loop is at its sleep.
C4_Witness ==
    /\ pc = "L153"
    /\ estado_do_sistema = "MODO_ESPERA"
    /\ gravacoes_iniciadas = 0
    /\ bordas_aceitas[PINO_BOTAO_GRAVAR] = 0
    /\ flag_botao_reproduzir_ativado
    /\ led = LedApagado

\* the pipeline phases, by what the hardware and the main loop are doing
Capturando == dma_ocupado \/ adc_em_execucao \/ pc \in {"L327", "L260"}
Renderizando == pc = "L381"
Reproduzindo == pc = "L274" \/ (\E p \in Buzzers : nivel_pwm[p] # 0)
FasesAtivas ==
    (IF Capturando THEN {"captura"} ELSE {})
        \cup (IF Renderizando THEN {"render"} ELSE {})
        \cup (IF Reproduzindo THEN {"reproducao"} ELSE {})

\* C9: at most one of capturing (DMA transfer and smoothing), rendering and
\* playing back is active in any state, and a run of the interrupt handler
\* neither starts nor ends a phase.
C9_UmaFasePorVez ==
    /\ [](Cardinality(FasesAtivas) <= 1)
    /\ [][\A pino \in Botoes : BordaEm(pino) => FasesAtivas' = FasesAtivas]_vars

\* C9 witness: playback is running with a sample on the buzzers, and both a
\* record edge and a play edge were accepted while it ran.
C9_Witness ==
    /\ FasesAtivas = {"reproducao"}
    /\ pc = "L274"
    /\ i_reproducao >= 1
    /\ flag_botao_reproduzir_ativado
    /\ flag_botao_gravar_ativado
    /\ fase_borda_gravar.fase = "reproducao"

\* C10: no accepted press is acted on twice: the recordings started never
\* outnumber the record edges the debounce accepted, and the playbacks
\* started never outnumber the accepted play edges.
C10_ConsumoUnico ==
    /\ gravacoes_iniciadas <= bordas_aceitas[PINO_BOTAO_GRAVAR]
    /\ reproducoes_iniciadas <= bordas_aceitas[PINO_BOTAO_REPRODUZIR]

\* C10 witness: a second record edge was accepted between the test of line
\* 118 and the clear of line 119, and one recording was started for the two.
C10_Witness ==
    /\ fase_borda_gravar = [fase |-> "inicio_gravacao", limpa_em |-> "L119"]
    /\ bordas_aceitas[PINO_BOTAO_GRAVAR] = 2
    /\ gravacoes_iniciadas = 1
    /\ pc = "L327"

\* C5: processo_de_gravacao returns exactly the capacity whenever the
\* 32-bit product freq_amostragem * duracao_seg exceeds it, returns the
\* product otherwise, and never gives the DMA channel more than the
\* capacity, for products that fit in 32 bits and for products that wrap.
C5_ContagemLimitada ==
    (chamada.fn = "processo_de_gravacao" /\ chamada.fase = "retornou") =>
        LET capacidade == U32(TAMANHO_BUFFER_AUDIO)
            f == chamada.freq_amostragem
            d == chamada.duracao_seg
            produto == Mul32(f, d)
        IN  /\ ~Gt32(chamada.contagem_dma, capacidade)
            /\ ParaInt(chamada.contagem_dma) <= 96000
            /\ Gt32(produto, capacidade) => chamada.retorno = <<1, 30464>>
            /\ ~Gt32(produto, capacidade) => chamada.retorno = produto
            \* the limbs agree with the integers where the product is small
            /\ (f[1] = 0 /\ d[1] = 0 /\ f[2] < 2^15 /\ d[2] < 2^15)
                   => ParaInt(produto) = f[2] * d[2]

\* C5 witness: 65537 * 65537 = 2^32 + 131073 does not fit in 32 bits, the
\* wrapped product 131073 exceeds the capacity and 96000 was returned.
C5_Witness ==
    /\ chamada.fn = "processo_de_gravacao"
    /\ chamada.fase = "retornou"
    /\ chamada.freq_amostragem = <<1, 1>>
    /\ chamada.duracao_seg = <<1, 1>>
    /\ chamada.retorno = U32(96000)
    /\ chamada.contagem_dma = U32(96000)

\* C6 as stated: out[0] = in[0] and out[i] = round(0.2 * in[i] + 0.8 * out[i-1]).
C6_Original ==
    (chamada.fn = "suavizacao" /\ chamada.fase = "L266") =>
        /\ chamada.saida[1] = chamada.entrada[1]
        /\ \A i \in 2 .. Len(chamada.entrada) :
              chamada.saida[i] =
                  \* the nearest integer to (in[i] + 4 * out[i-1]) / 5
                  (2 * (chamada.entrada[i] + 4 * chamada.saida[i - 1]) + 5) \div 10

\* C6, amended: out[0] = in[0] and, for i >= 1, out[i] is
\* 0.2 * in[i] + 0.8 * out[i-1] rounded DOWN (the conversion to uint16_t
\* truncates), computed from the previous smoothed output: 5 * out[i] is at
\* most in[i] + 4 * out[i-1] and less than 5 more would exceed it; for the
\* input 4095, 0, 4095, 0 the result is 4095, 3276, 3439, 2751.
C6_Suavizacao ==
    (chamada.fn = "suavizacao" /\ chamada.fase = "L266") =>
        /\ Len(chamada.saida) = Len(chamada.entrada)
        /\ chamada.saida[1] = chamada.entrada[1]
        /\ \A i \in 2 .. Len(chamada.entrada) :
              LET soma == chamada.entrada[i] + 4 * chamada.saida[i - 1]
              IN  /\ 5 * chamada.saida[i] <= soma
                  /\ soma < 5 * (chamada.saida[i] + 1)
        /\ chamada.entrada = <<4095, 0, 4095, 0>>
               => chamada.saida = <<4095, 3276, 3439, 2751>>

\* C6 witness: the pass has run on the block 4095, 0, 4095, 0.
C6_Witness ==
    /\ chamada.fn = "suavizacao"
    /\ chamada.fase = "L266"
    /\ chamada.entrada = <<4095, 0, 4095, 0>>
    /\ chamada.saida = <<4095, 3276, 3439, 2751>>

\* C7: for every 16-bit sample the level written to both buzzers is
\* (min(trunc(1.7 * sample), 4095) * valor_max_pwm) / 4095, which lies in
\* 0 .. valor_max_pwm, and a sample of 4095 gives exactly valor_max_pwm.
C7_NivelSaturado ==
    (chamada.fn = "processo_de_reproducao" /\ chamada.fase = "L286") =>
        LET valor_max_pwm == (chamada.clock \div 48000) - 1
            amplificada == (17 * chamada.amostra) \div 10
            cortada == IF amplificada < 4095 THEN amplificada ELSE 4095
        IN  \A p \in Buzzers :
              /\ nivel_pwm[p] = (cortada * valor_max_pwm) \div 4095
              /\ nivel_pwm[p] \in 0 .. valor_max_pwm
              /\ chamada.amostra = 4095 => nivel_pwm[p] = valor_max_pwm
              /\ chamada.amostra >= 2409 => nivel_pwm[p] = valor_max_pwm

\* C7 witness: the sample 4095 was played at the default clock and both
\* buzzers hold valor_max_pwm = 125000000 / 48000 - 1 = 2603.
C7_Witness ==
    /\ chamada.fn = "processo_de_reproducao"
    /\ chamada.fase = "L286"
    /\ chamada.amostra = 4095
    /\ chamada.clock = ClkSysHz
    /\ nivel_pwm = [p \in Buzzers |-> 2603]

\* C8: mostrar_waveform_display draws column x exactly when x is below both
\* the sample count and 128; a drawn column reads index floor(x * count / 128)
\* when count > 128 (2 * x for count = 256) and index x otherwise, and the
\* index is always below the count.
C8_IndiceDaColuna ==
    (chamada.fn = "mostrar_waveform_display" /\ chamada.fase = "L373") =>
        LET n == chamada.n_amostras
            x == chamada.x
            indice == chamada.indice_amostra
        IN  /\ chamada.desenhada <=> (x < n /\ x < 128)
            /\ chamada.desenhada =>
                  /\ indice < n
                  /\ n > 128 => /\ 128 * indice <= x * n
                                /\ x * n < 128 * (indice + 1)
                  /\ n = 256 => indice = 2 * x
                  /\ n <= 128 => indice = x

\* C8 witness: with 256 samples the last column was drawn from index 254.
C8_Witness ==
    /\ chamada.fn = "mostrar_waveform_display"
    /\ chamada.fase = "L373"
    /\ chamada.n_amostras = 256
    /\ chamada.x = 127
    /\ chamada.desenhada
    /\ chamada.indice_amostra = 254

\* the other button
OutroBotao(pino) ==
    IF pino = PINO_BOTAO_GRAVAR THEN PINO_BOTAO_REPRODUZIR ELSE PINO_BOTAO_GRAVAR

\* C11: an edge more than 200 ms after the button's last-accepted timestamp
\* sets the button's flag and moves the timestamp to the edge; an edge at
\* most 200 ms after it (exactly 200 included) changes nothing at all,
\* neither a flag nor a timestamp, so a rejected bounce does not extend the
\* window; in both cases the other button's flag and timestamp are untouched.
C11_BordaRejeitada ==
    [][\A pino \in Botoes :
          BordaEm(pino) =>
              LET decorrido == ParaInt(agora) - ParaInt(UltimoAcionamento(pino))
              IN  /\ decorrido > 200 =>
                        /\ FlagDoBotao(pino)'
                        /\ UltimoAcionamento(pino)' = agora
                  /\ decorrido <= 200 => UNCHANGED varsPrograma
                  /\ FlagDoBotao(OutroBotao(pino))' = FlagDoBotao(OutroBotao(pino))
                  /\ UltimoAcionamento(OutroBotao(pino))'
                        = UltimoAcionamento(OutroBotao(pino))]_vars

\* C11 witness: the last record edge came exactly 200 ms after the accepted
\* one and was rejected, the timestamp still being that of the accepted
\* edge, while the play button has a pending flag and a timestamp of its own.
C11_Witness ==
    /\ ultima_borda[PINO_BOTAO_GRAVAR].ha
    /\ ~ultima_borda[PINO_BOTAO_GRAVAR].aceita
    /\ ParaInt(ultima_borda[PINO_BOTAO_GRAVAR].t)
          - ParaInt(ultima_borda[PINO_BOTAO_GRAVAR].t_aceita) = 200
    /\ ultimo_acionamento_gravar = ultima_borda[PINO_BOTAO_GRAVAR].t_aceita
    /\ flag_botao_reproduzir_ativado
    /\ ultimo_acionamento_reproduzir # ultimo_acionamento_gravar

\* the recording is over and the display has not been cleared yet
OndaNaTela ==
    \/ pc \in {"L129", "L136", "L138", "L140", "L274", "L141", "L144"}
    \/ pc \in {"switch", "L153"} /\ estado_do_sistema = "MODO_AGUARDANDO_PLAYBACK"

\* C12: the sample buffer changes only in a step of the DMA transfer or of
\* the smoothing pass, and the sample count only in the return of
\* processo_de_gravacao; hence from the end of rendering to the display
\* clear the display shows the waveform of the buffer and count that are in
\* memory, and playback ends having stepped through exactly count samples.
C12_BufferSoNaGravacao ==
    /\ [][buffer_de_amostras' # buffer_de_amostras
             => \/ pc = "L327" /\ dma_ocupado /\ ~dma_ocupado'
                \/ pc = "L260" /\ pc' = "L124"]_vars
    /\ [][total_amostras_capturadas' # total_amostras_capturadas
             => pc = "L260" /\ pc' = "L124"]_vars
    /\ [](OndaNaTela =>
             /\ tela.titulo
             /\ tela.pixels =
                   UNION { {x} \X LinhasDaColuna(
                                     buffer_de_amostras[
                                        IndiceAmostra(x, total_amostras_capturadas) + 1])
                           : x \in 0 .. (ColunasADesenhar(total_amostras_capturadas) - 1) })
    /\ [](pc = "L141" => i_reproducao = total_amostras_capturadas)

\* C12 witness: playback has ended after stepping through the two samples of
\* a recording whose first sample is full scale, the waveform still on the
\* display, with a record edge accepted while it played.
C12_Witness ==
    /\ pc = "L141"
    /\ total_amostras_capturadas >= 2
    /\ i_reproducao = total_amostras_capturadas
    /\ buffer_de_amostras[1] = 4095
    /\ buffer_de_amostras[2] = 3276
    /\ tela.pixels # {}
    /\ flag_botao_gravar_ativado
    /\ fase_borda_gravar.fase = "reproducao"

\* C13: the LED is red from line 121 to line 124, which bracket the call of
\* processo_de_gravacao, so it is red whenever capture or smoothing runs;
\* it is green from line 138 to line 141, which bracket the call of
\* processo_de_reproducao, so it is green whenever playback runs; it is off
\* in every other state, among them rendering, the wait in either system
\* state and every poll of the loop; blue is never on and red and green
\* are never on together.
C13_LedSegueFase ==
    /\ led = LedVermelho <=> pc \in {"L123", "L327", "L260", "L124"}
    /\ led = LedVerde <=> pc \in {"L140", "L274", "L141"}
    /\ led \in {LedApagado, LedVermelho, LedVerde}
    /\ Capturando => led[1] /\ ~led[2]
    /\ Reproduzindo => led[2] /\ ~led[1]
    /\ (Renderizando \/ pc \in {"switch", "L153"}) => ~led[1] /\ ~led[2]
    /\ ~led[3]
    /\ ~(led[1] /\ led[2])

\* C13 witness: the second sample of a recording is being played with the
\* LED green, after a capture during which it was red.
C13_Witness ==
    /\ led = LedVerde
    /\ pc = "L274"
    /\ i_reproducao >= 1
    /\ i_reproducao < total_amostras_capturadas
    /\ eventos = <<"captura", "suavizacao", "render", "aguardando">>

NivelZero == [p \in Buzzers |-> 0]

\* C14: outside the playback loop both PWM outputs are at level 0; the
\* levels change only in a step of the playback loop; with count = 0 the
\* outputs stay at 0 and the loop's only step is the zeroing, which changes
\* nothing else; in every state the two outputs hold the same level, which
\* after a sample step is the level of the sample just played.
C14_PwmZeroForaDaReproducao ==
    /\ [](pc # "L274" => nivel_pwm = NivelZero)
    /\ [](nivel_pwm[PINO_BUZZER_1] = nivel_pwm[PINO_BUZZER_2])
    /\ []((pc = "L274" /\ i_reproducao >= 1) =>
             nivel_pwm[PINO_BUZZER_1] =
                 NivelPwm(buffer_de_amostras[i_reproducao],
                          ValorMaxPwm(ClkSysHz, TAXA_AMOSTRAGEM)))
    /\ []((pc = "L274" /\ total_amostras_capturadas = 0) => nivel_pwm = NivelZero)
    /\ [][nivel_pwm' # nivel_pwm => pc = "L274"]_vars
    /\ [][(pc = "L274" /\ total_amostras_capturadas = 0 /\ pc' # pc) =>
             /\ pc' = "L141"
             /\ nivel_pwm' = NivelZero
             /\ UNCHANGED <<estado_do_sistema, total_amostras_capturadas,
                            flag_botao_gravar_ativado, flag_botao_reproduzir_ativado,
                            ultimo_acionamento_gravar, ultimo_acionamento_reproduzir,
                            agora, led, buffer_de_amostras, frame_buffer_display,
                            tela, dma_ocupado, dma_contagem, adc_em_execucao,
                            i_reproducao>>]_vars

\* C14 witness: after a playback of an empty recording, which left the
\* outputs at 0, a recording was made and its full-scale first sample is on
\* both outputs.
C14_Witness ==
    /\ chamada.fn = "processo_de_reproducao"
    /\ reproducoes_iniciadas = 2
    /\ pc = "L274"
    /\ i_reproducao = 1
    /\ buffer_de_amostras[1] = 4095
    /\ nivel_pwm = [p \in Buzzers |-> 2603]

\* the main loop is blocked in the capture call
PresoNaCaptura ==
    /\ pc = "L327"
    /\ led = LedVermelho
    /\ estado_do_sistema = "MODO_ESPERA"
    /\ adc_em_execucao

\* C15: while the DMA transfer has not completed the main loop is blocked
\* at line 327 with the LED red and the system state Idle, and no step that
\* leaves the transfer incomplete (a button edge, the timer) moves the loop
\* or changes state, LED, count or outputs; so if the transfer never
\* completes the system stays there forever: there is no timeout.
C15_DmaPendenteBloqueia ==
    /\ [](dma_ocupado => PresoNaCaptura)
    /\ [][(dma_ocupado /\ dma_ocupado') =>
             UNCHANGED <<pc, estado_do_sistema, led, total_amostras_capturadas,
                         buffer_de_amostras, nivel_pwm, tela>>]_vars
    /\ []((dma_ocupado /\ [](dma_ocupado)) => [](PresoNaCaptura))

\* C15 witness: the loop is blocked in the capture call with the transfer
\* still pending at the end of the modelled time, both buttons having had
\* edges accepted (and their flags set) while it was blocked.
C15_Witness ==
    /\ PresoNaCaptura
    /\ dma_ocupado
    /\ ~Gt32(U32(HorizonteMs), Sub32(agora, U32(ESPERA_INICIAL_MS)))
    /\ flag_botao_gravar_ativado
    /\ flag_botao_reproduzir_ativado
    /\ fase_borda_gravar.fase = "gravacao"

\* C16: for every sample value 0..65535 a drawn column x < 128 sets rows
\* within 12..63 only; the rows are a contiguous run containing the axis row
\* 38, lying at or above the axis for samples above 2048 and at or below it
\* for samples below 2048 (the run is the axis pixel alone for samples less
\* than 20 codes from 2048, and reaches rows 12 and 63 at the extremes).
C16_PixelsNaFaixa ==
    (chamada.fn = "mostrar_waveform_display" /\ chamada.fase = "L373"
        /\ chamada.desenhada) =>
        LET linhas == chamada.linhas
            amostra == chamada.amostra
        IN  /\ chamada.x \in 0 .. 127
            /\ linhas \subseteq 12 .. 63
            /\ 38 \in linhas
            /\ \A y \in linhas : \A z \in 12 .. 63 :
                  (y <= z /\ z <= 38) \/ (38 <= z /\ z <= y) => z \in linhas
            /\ amostra > 2048 => linhas \subseteq 12 .. 38
            /\ amostra < 2048 => linhas \subseteq 38 .. 63
            /\ amostra = 2048 => linhas = {38}
            /\ amostra >= 2048 + 20 => 37 \in linhas
            /\ amostra <= 2048 - 20 => 39 \in linhas
            /\ amostra = 0 => linhas = 38 .. 63
            /\ amostra >= 4095 => linhas = 12 .. 38

\* C16 witness: the last column was drawn for the sample 65535, whose row
\* is clipped to the top of the band.
C16_Witness ==
    /\ chamada.fn = "mostrar_waveform_display"
    /\ chamada.fase = "L373"
    /\ chamada.desenhada
    /\ chamada.x = 127
    /\ chamada.amostra = 65535
    /\ chamada.linhas = 12 .. 38

\* C17: the play flag is cleared by line 136 only, in AwaitingPlayback; so
\* a play press accepted in Idle or during a recording is still pending when
\* the system enters AwaitingPlayback, and a poll in AwaitingPlayback that
\* finds the flag set goes on to start playback, with no new press.
C17_PlayAntecipadoMantido ==
    /\ [][(flag_botao_reproduzir_ativado /\ ~flag_botao_reproduzir_ativado') =>
             /\ pc = "L136"
             /\ estado_do_sistema = "MODO_AGUARDANDO_PLAYBACK"]_vars
    /\ []((bordas_aceitas[PINO_BOTAO_REPRODUZIR] >= 1
             /\ reproducoes_iniciadas = 0
             /\ pc \notin {"L138", "L140"})
          => flag_botao_reproduzir_ativado)
    /\ [][(pc = "switch" /\ pc' # pc
             /\ estado_do_sistema = "MODO_AGUARDANDO_PLAYBACK"
             /\ flag_botao_reproduzir_ativado)
          => pc' = "L136"]_vars
    /\ [][(pc = "L129" /\ pc' # pc) =>
             /\ pc' = "L153"
             /\ flag_botao_reproduzir_ativado' = flag_botao_reproduzir_ativado]_vars

\* C17 witness: playback is being started by the first poll in
\* AwaitingPlayback for the only play edge accepted, which came before the
\* record press, while the system was Idle.
C17_Witness ==
    /\ pc = "L136"
    /\ bordas_aceitas[PINO_BOTAO_REPRODUZIR] = 1
    /\ bordas_aceitas[PINO_BOTAO_GRAVAR] = 1
    /\ Gt32(ultimo_acionamento_gravar, ultimo_acionamento_reproduzir)
    /\ reproducoes_iniciadas = 0
    /\ flag_botao_reproduzir_ativado

\* the phases from the start of the capture call to the poll that starts
\* playback and through the playback loop
FasesSemGravacao ==
    {"gravacao", "fim_gravacao", "render", "fim_render", "aguardando",
     "inicio_reproducao", "reproducao"}

\* C18: a record flag whose edge was accepted during recording, rendering
\* or the wait in AwaitingPlayback is pending only on the way to line 147:
\* no poll in Idle sees it and only line 147 clears it; a poll in Idle that
\* starts a recording found a flag whose last edge was accepted in Idle or
\* after the clear of line 147 (or since boot).
C18_GravarForaDeHoraIgnorado ==
    /\ []((flag_botao_gravar_ativado /\ fase_borda_gravar.fase \in FasesSemGravacao)
          => /\ pc \in {"L327", "L260", "L124", "L127", "L381", "L129", "L153",
                        "switch", "L136", "L138", "L140", "L274", "L141", "L144",
                        "L147"}
             /\ pc \in {"L153", "switch"}
                   => estado_do_sistema = "MODO_AGUARDANDO_PLAYBACK")
    /\ [][(flag_botao_gravar_ativado /\ ~flag_botao_gravar_ativado'
             /\ fase_borda_gravar.fase \in FasesSemGravacao)
          => pc = "L147"]_vars
    /\ [][(pc = "switch" /\ pc' = "L119") =>
             /\ estado_do_sistema = "MODO_ESPERA"
             /\ fase_borda_gravar.fase \in {"espera", "fim_reproducao"}
             /\ fase_borda_gravar.limpa_em = "nenhuma"]_vars
    /\ []((pc = "L149" /\ flag_botao_gravar_ativado)
          => fase_borda_gravar = [fase |-> "fim_reproducao", limpa_em |-> "nenhuma"])
    /\ [](pc = "L123" => estado_do_sistema = "MODO_ESPERA")

\* C18 witness: a record edge accepted while the capture was running was
\* cleared by line 147 and the loop polls in Idle with one recording made.
C18_Witness ==
    /\ fase_borda_gravar = [fase |-> "gravacao", limpa_em |-> "L147"]
    /\ pc = "switch"
    /\ estado_do_sistema = "MODO_ESPERA"
    /\ ~flag_botao_gravar_ativado
    /\ gravacoes_iniciadas = 1
    /\ bordas_aceitas[PINO_BOTAO_GRAVAR] = 2

\* C19: when every raw sample of the block is in 0..4095, every value the
\* smoothing pass leaves is in 0..4095, each output lying between the
\* smaller and the larger of its raw input and the previous output.
C19_SuavizacaoNaFaixa ==
    (chamada.fn = "suavizacao" /\ chamada.fase = "L266"
        /\ \A i \in 1 .. Len(chamada.entrada) : chamada.entrada[i] \in 0 .. 4095) =>
        LET Menor(a, b) == IF a < b THEN a ELSE b
            Maior(a, b) == IF a < b THEN b ELSE a
        IN
        /\ \A i \in 1 .. Len(chamada.saida) : chamada.saida[i] \in 0 .. 4095
        /\ \A i \in 2 .. Len(chamada.saida) :
              /\ Menor(chamada.entrada[i], chamada.saida[i - 1]) <= chamada.saida[i]
              /\ chamada.saida[i] <= Maior(chamada.entrada[i], chamada.saida[i - 1])

\* C19 witness: the pass has run on the in-range block 0, 4095, 4095, 4095,
\* whose outputs climb towards full scale without reaching it.
C19_Witness ==
    /\ chamada.fn = "suavizacao"
    /\ chamada.fase = "L266"
    /\ chamada.entrada = <<0, 4095, 4095, 4095>>
    /\ chamada.saida = <<0, 819, 1474, 1998>>

\* C20: for an edge that comes a true elapsed time below 2^32 ms after the
\* last accepted edge, the timer having wrapped past 2^32 or not, the
\* handler sets the flag and takes the edge's timestamp iff the elapsed time
\* exceeds 200 ms, and otherwise changes neither; with the last-accepted
\* timestamp at its initial 0, the edge is accepted iff its timestamp
\* exceeds 200 ms since boot.
C20_DebounceComVolta ==
    (chamada.fn = "tratador_interrupcao_botao" /\ chamada.fase = "L318") =>
        LET passou == chamada.decorrido[1] > 0 \/ chamada.decorrido[2] > 200
            pino == chamada.pino
        IN  /\ passou => /\ FlagDoBotao(pino)
                         /\ UltimoAcionamento(pino) = agora
                         /\ bordas_aceitas[pino] = 1
            /\ ~passou => /\ FlagDoBotao(pino) = chamada.flag_antes
                          /\ UltimoAcionamento(pino) = chamada.ultimo
                          /\ bordas_aceitas[pino] = 0
            /\ chamada.ultimo = <<0, 0>> =>
                  (bordas_aceitas[pino] = 1 <=> (agora[1] > 0 \/ agora[2] > 200))

\* C20 witness: the last accepted edge was 100 ms before the counter
\* wrapped; an edge 201 ms after it, read by the timer as 101, was accepted.
C20_Witness ==
    /\ chamada.fn = "tratador_interrupcao_botao"
    /\ chamada.fase = "L318"
    /\ chamada.pino = PINO_BOTAO_GRAVAR
    /\ chamada.ultimo = <<65535, 65436>>
    /\ chamada.decorrido = <<0, 201>>
    /\ ~chamada.flag_antes
    /\ agora = <<0, 101>>
    /\ flag_botao_gravar_ativado
    /\ ultimo_acionamento_gravar = <<0, 101>>

=============================================================================
